---- MODULE Spec2Model ----
(***************************************************************************)
(* Session Store (AuthContext.tsx), Login view (Login.tsx) and Dashboard   *)
(* view selector (Dashboard.tsx) of the hotel-sites dashboard front end.   *)
(*                                                                         *)
(* One action is one JavaScript task: an event handler, a mount effect, or *)
(* a timer callback together with the promise continuation it queues (the  *)
(* microtask runs before any other task).  `user` is the value of the      *)
(* provider's useState cell once the task has finished.  localStorage      *)
(* calls are taken to succeed.                                             *)
(* JavaScript strings that the code inspects (email, password, the text    *)
(* stored under 'user') are sequences; JSON text is a sequence of tokens.  *)
(***************************************************************************)
EXTENDS Integers, Sequences, FiniteSets, TLC

\* login invocations per page lifetime
MaxCalls == 2

\* password.length >= 4 in login, password.length < 4 in handleSubmit
MinPasswordLength == 4
FormMinPasswordLength == 4

Roles == {"investor", "admin"}
Emails == {<<>>, <<"a", "@", "b", "@", "c">>}
Passwords == {<<>>, <<"x", "y", "z">>, <<"w", "x", "y", "z">>}
\* Math.random().toString(36).substr(2, 9)
Ids == {"i1", "i2"}

VARIABLES
  pc,         \* "start": AuthProvider mounted, restore effect not yet run; "running"
  user,       \* AuthProvider's useState<User | null>
  storage,    \* localStorage entry under the key 'user'
  calls,      \* number of login invocations of this page lifetime
  timers,     \* setTimeout(..., 500) closures not yet fired, in firing order
  email,      \* Login view form state
  password,
  role,
  isLoading,
  location,   \* current route
  ev          \* the last task run and what it showed the user

vars == <<pc, user, storage, calls, timers, email, password, role, isLoading, location, ev>>

(***************************************************************************)
(* JavaScript values held by `user`                                        *)
(***************************************************************************)
Null == [t |-> "null"]
Zero == [t |-> "num"]
Obj(f) == [t |-> "obj", f |-> f]

\* !!v
Truthy(v) == v.t = "obj"

\* isAuthenticated: !!user
IsAuthenticated(u) == Truthy(u)

\* v?.k
Field(v, k) == IF v.t = "obj" /\ k \in DOMAIN v.f THEN <<v.f[k]>> ELSE <<>>

\* the User interface
IsUser(v) ==
  /\ v.t = "obj"
  /\ DOMAIN v.f = {"id", "email", "name", "role"}
  /\ v.f.role \in Roles

Min(S) == CHOOSE x \in S : \A y \in S : x <= y

\* s.substring(0, s.lastIndexOf('@')) in place of s.split('@')[0]
SplitLast(s) ==
  LET at == {i \in 1..Len(s) : s[i] = "@"}
  IN  IF at = {} THEN s ELSE SubSeq(s, 1, (CHOOSE x \in at : \A y \in at : x >= y) - 1)

\* s.split('@')[0]
SplitFirst(s) ==
  LET at == {i \in 1..Len(s) : s[i] = "@"}
  IN  IF at = {} THEN s ELSE SubSeq(s, 1, Min(at) - 1)

NewUser(id, e, r) ==
  Obj([id |-> id, email |-> e, name |-> SplitFirst(e), role |-> r])

(***************************************************************************)
(* JSON text                                                               *)
(***************************************************************************)
LBrace == [tok |-> "{"]
RBrace == [tok |-> "}"]
NullLit == [tok |-> "null"]
ZeroLit == [tok |-> "0"]
Garbage == [tok |-> "?"]
Pair(k, v) == [tok |-> "pair", k |-> k, v |-> v]

KeyOrder == <<"id", "email", "name", "role">>

JSONstringify(v) ==
  CASE v.t = "null" -> <<NullLit>>
    [] v.t = "num" -> <<ZeroLit>>
    [] v.t = "obj" ->
         LET InObj(k) == k \in DOMAIN v.f
             keys == SelectSeq(KeyOrder, InObj)
         IN  <<LBrace>> \o [i \in 1..Len(keys) |-> Pair(keys[i], v.f[keys[i]])] \o <<RBrace>>

\* JSON.parse: [ok |-> TRUE, value |-> v], or [ok |-> FALSE] for a SyntaxError
JSONparse(s) ==
  IF s = <<NullLit>> THEN [ok |-> TRUE, value |-> Null]
  ELSE IF s = <<ZeroLit>> THEN [ok |-> TRUE, value |-> Zero]
  ELSE IF /\ Len(s) >= 2
          /\ s[1] = LBrace
          /\ s[Len(s)] = RBrace
          /\ \A i \in 2..(Len(s) - 1) : s[i].tok = "pair"
       THEN LET idx == 2..(Len(s) - 1)
                keys == {s[i].k : i \in idx}
                Last(k) == CHOOSE i \in idx : s[i].k = k /\ \A j \in idx : s[j].k = k => j <= i
            IN  [ok |-> TRUE, value |-> Obj([k \in keys |-> s[Last(k)].v])]
       ELSE [ok |-> FALSE]

(***************************************************************************)
(* localStorage                                                            *)
(***************************************************************************)
NoEntry == [present |-> FALSE]
Entry(s) == [present |-> TRUE, text |-> s]

\* what the browser may hold under 'user' when the page is first opened
StoredTexts ==
  { <<>>,
    <<Garbage>>,
    <<NullLit>>,
    <<ZeroLit>>,
    JSONstringify(Obj([id |-> "i1", email |-> <<>>, name |-> <<>>, role |-> "guest"])),
    JSONstringify(NewUser("i1", <<"a", "@", "b", "@", "c">>, "admin")) }

InitialStorage == {NoEntry} \cup {Entry(s) : s \in StoredTexts}

(***************************************************************************)
(* What a task shows the user                                              *)
(***************************************************************************)
NoOut == [kind |-> "none"]
Toast(level, msg) == [kind |-> "toast", level |-> level, msg |-> msg]
Event(op, out) == [op |-> op, out |-> out]
\* logout was called with the session u and the entry st
LoggedOut(u, st) ==
  [op |-> "logout", out |-> NoOut, wasAuthenticated |-> Truthy(u), wasStored |-> st.present]
\* the promise of closure t was resolved to res
Settled(t, res, out) == [op |-> "resolve", call |-> t.call, result |-> res, out |-> out]

(***************************************************************************)
(* Dashboard                                                               *)
(***************************************************************************)
InvestorLayout ==
  [kind |-> "layout",
   title |-> "Dashboard de Inversionista",
   kpis |-> <<"RevPAR", "Ganancia Neta", "Ocupacion Promedio", "Ventas Totales">>,
   charts |-> <<"Tendencia de RevPAR", "Distribucion por Propiedad">>]

AdminLayout ==
  [kind |-> "layout",
   title |-> "Dashboard Administrativo",
   kpis |-> <<"% Ocupacion", "Ventas", "ADR", "RevPAR", "Presupuesto a hoy",
              "Forecast de ventas", "Tarifa promedio (Per)", "Gastos y costos",
              "Utilidad/Perdida", "FARA">>,
   charts |-> <<"Total ventas", "Evolucion tasa de ocupacion", "Evolucion tarifa promedio",
                "Evolucion RevPAR", "Propiedad - Comparacion de Ratings">>]

\* the two branches exchanged
DashboardSwapped(u) ==
  IF Field(u, "role") = <<"investor">> THEN AdminLayout ELSE InvestorLayout

\* if (user?.role === 'investor') ... else ...
Dashboard(u) ==
  IF Field(u, "role") = <<"investor">> THEN InvestorLayout ELSE AdminLayout

(***************************************************************************)
(* Promises and the Login view instance                                    *)
(***************************************************************************)
\* A timer closure holds login's arguments and the promise's resolve; `awaiter` is
\* the handleSubmit invocation awaiting that promise: "view" (of the mounted Login
\* view), "stale" (of a Login view since unmounted) or "none".
\* The Login view is unmounted: its awaiting handleSubmit invocations outlive it
Orphan(ts) ==
  [i \in 1..Len(ts) |->
     IF ts[i].awaiter = "view" THEN [ts[i] EXCEPT !.awaiter = "stale"] ELSE ts[i]]

\* useState(''), useState(''), useState('investor'), useState(false)
FreshForm ==
  /\ email' = <<>>
  /\ password' = <<>>
  /\ role' = "investor"
  /\ isLoading' = FALSE

\* navigate(path); leaving /login unmounts the Login view, entering it mounts a new one
Navigate(path, ts) ==
  /\ location' = path
  /\ IF location = "/login" /\ path # "/login"
       THEN timers' = Orphan(ts) /\ FreshForm
       ELSE timers' = ts /\ UNCHANGED <<email, password, role, isLoading>>

Init ==
  /\ pc = "start"
  /\ user = Null
  /\ storage \in InitialStorage
  /\ calls = 0
  /\ timers = <<>>
  /\ email = <<>>
  /\ password = <<>>
  /\ role = "investor"
  /\ isLoading = FALSE
  /\ location \in {"/login", "/"}
  /\ ev = Event("open", NoOut)

(***************************************************************************)
(* Session Store                                                           *)
(***************************************************************************)
\* React.useEffect(() => { ... }, []) of AuthProvider
Restore ==
  /\ pc = "start"
  /\ pc' = "running"
  /\ IF storage.present /\ storage.text # <<>>
       THEN LET r == JSONparse(storage.text)
            IN  IF r.ok
                  THEN user' = r.value /\ storage' = storage
                  ELSE user' = user /\ storage' = NoEntry
       ELSE user' = user /\ storage' = storage
  /\ ev' = Event("restore", NoOut)
  /\ UNCHANGED <<calls, timers, email, password, role, isLoading, location>>

\* login(e, p, r) up to the point where it returns its promise
StartLogin(e, p, r, awaiter) ==
  /\ calls < MaxCalls
  /\ calls' = calls + 1
  /\ timers' = Append(timers, [call |-> calls + 1, email |-> e, password |-> p, role |-> r,
                               awaiter |-> awaiter])

\* login called by a consumer of the store other than the Login view
Login(e, p, r) ==
  /\ pc = "running"
  /\ StartLogin(e, p, r, "none")
  /\ ev' = Event("task", NoOut)
  /\ UNCHANGED <<pc, user, storage, email, password, role, isLoading, location>>

\* the callback without its password check
CallbackUnchecked(t) ==
  \E id \in Ids :
    LET newUser == NewUser(id, t.email, t.role)
    IN  /\ user' = newUser
        /\ storage' = Entry(JSONstringify(newUser))

\* the callback without localStorage.setItem
CallbackForgetsSetItem(t) ==
  IF Len(t.password) >= 4
    THEN \E id \in Ids : user' = NewUser(id, t.email, t.role) /\ storage' = storage
    ELSE UNCHANGED <<user, storage>>

\* the body of the setTimeout callback of closure t: the new user and storage
Callback(t) ==
  IF Len(t.password) >= MinPasswordLength
    THEN \E id \in Ids :
           LET newUser == NewUser(id, t.email, t.role)
           IN  /\ user' = newUser
               /\ storage' = Entry(JSONstringify(newUser))
    ELSE UNCHANGED <<user, storage>>

\* the callback without its else branch: resolve is never called
ResolutionOnlyOnSuccess(t) == IF Len(t.password) >= 4 THEN "true" ELSE "pending"

\* what the promise of closure t resolves to
Resolution(t) == IF Len(t.password) >= MinPasswordLength THEN "true" ELSE "false"

Resolved(t, out) == Settled(t, Resolution(t), out)

\* handleSubmit after its await, for the promise of closure t, the timers left
\* being ts
Resume(t, ts) ==
  IF Resolution(t) = "true"
    THEN /\ ev' = Resolved(t, Toast("success", "Inicio de sesion exitoso"))
         /\ Navigate("/", ts)
    ELSE /\ ev' = Resolved(t, Toast("error", "Credenciales incorrectas"))
         /\ timers' = ts
         /\ isLoading' = IF t.awaiter = "view" THEN FALSE ELSE isLoading
         /\ UNCHANGED <<email, password, role, location>>

\* the oldest timer fires; the handleSubmit awaiting its promise continues
TimerFire ==
  /\ pc = "running"
  /\ timers # <<>>
  /\ LET t == Head(timers)
     IN  /\ Callback(t)
         /\ IF t.awaiter = "none"
              THEN /\ timers' = Tail(timers)
                   /\ ev' = Resolved(t, NoOut)
                   /\ UNCHANGED <<email, password, role, isLoading, location>>
              ELSE Resume(t, Tail(timers))
  /\ UNCHANGED <<pc, calls>>

\* logout without localStorage.removeItem('user')
LogoutKeepsEntry ==
  /\ pc = "running"
  /\ user' = Null
  /\ ev' = LoggedOut(user, storage)
  /\ UNCHANGED <<pc, storage, calls, timers, email, password, role, isLoading, location>>

\* a logout that cancels the pending logins
LogoutCancelsLogins ==
  /\ pc = "running"
  /\ user' = Null
  /\ storage' = NoEntry
  /\ timers' = <<>>
  /\ ev' = LoggedOut(user, storage)
  /\ UNCHANGED <<pc, calls, email, password, role, isLoading, location>>

Logout ==
  /\ pc = "running"
  /\ user' = Null
  /\ storage' = NoEntry
  /\ ev' = LoggedOut(user, storage)
  /\ UNCHANGED <<pc, calls, timers, email, password, role, isLoading, location>>

\* the page is reloaded: memory is lost, localStorage and the URL stay
Reload ==
  /\ pc = "running"
  /\ pc' = "start"
  /\ user' = Null
  /\ calls' = 0
  /\ timers' = <<>>
  /\ FreshForm
  /\ ev' = Event("open", NoOut)
  /\ UNCHANGED <<storage, location>>

(***************************************************************************)
(* Login view                                                              *)
(***************************************************************************)
\* onChange of the email input
SetEmail(e) ==
  /\ pc = "running"
  /\ location = "/login" /\ ~isLoading
  /\ e # email
  /\ email' = e
  /\ ev' = Event("task", NoOut)
  /\ UNCHANGED <<pc, user, storage, calls, timers, password, role, isLoading, location>>

\* onChange of the password input
SetPassword(p) ==
  /\ pc = "running"
  /\ location = "/login" /\ ~isLoading
  /\ p # password
  /\ password' = p
  /\ ev' = Event("task", NoOut)
  /\ UNCHANGED <<pc, user, storage, calls, timers, email, role, isLoading, location>>

\* onValueChange of the role select
SetRole(r) ==
  /\ pc = "running"
  /\ location = "/login" /\ ~isLoading
  /\ r # role
  /\ role' = r
  /\ ev' = Event("task", NoOut)
  /\ UNCHANGED <<pc, user, storage, calls, timers, email, password, isLoading, location>>

\* handleSubmit without its password-length check
HandleSubmitNoLengthCheck ==
  /\ pc = "running"
  /\ location = "/login" /\ ~isLoading
  /\ IF email = <<>> \/ password = <<>>
       THEN /\ ev' = Event("submit", Toast("error", "Por favor completa todos los campos"))
            /\ UNCHANGED <<calls, timers, isLoading>>
       ELSE /\ isLoading' = TRUE
            /\ StartLogin(email, password, role, "view")
            /\ ev' = Event("submit", NoOut)
  /\ UNCHANGED <<pc, user, storage, email, password, role, location>>

\* handleSubmit without setIsLoading(true)
HandleSubmitForgetsLoading ==
  /\ pc = "running"
  /\ location = "/login" /\ ~isLoading
  /\ IF email = <<>> \/ password = <<>>
       THEN /\ ev' = Event("submit", Toast("error", "Por favor completa todos los campos"))
            /\ UNCHANGED <<calls, timers>>
       ELSE IF Len(password) < 4
         THEN /\ ev' = Event("submit", Toast("error", "La contrasena debe tener al menos 4 caracteres"))
              /\ UNCHANGED <<calls, timers>>
         ELSE /\ StartLogin(email, password, role, "view")
              /\ ev' = Event("submit", NoOut)
  /\ UNCHANGED <<pc, user, storage, email, password, role, isLoading, location>>

\* handleSubmit up to its await
HandleSubmit ==
  /\ pc = "running"
  /\ location = "/login" /\ ~isLoading
  /\ IF email = <<>> \/ password = <<>>
       THEN /\ ev' = Event("submit", Toast("error", "Por favor completa todos los campos"))
            /\ UNCHANGED <<calls, timers, isLoading>>
       ELSE IF Len(password) < FormMinPasswordLength
         THEN /\ ev' = Event("submit", Toast("error", "La contrasena debe tener al menos 4 caracteres"))
              /\ UNCHANGED <<calls, timers, isLoading>>
         ELSE /\ isLoading' = TRUE
              /\ StartLogin(email, password, role, "view")
              /\ ev' = Event("submit", NoOut)
  /\ UNCHANGED <<pc, user, storage, email, password, role, location>>

\* useEffect(() => { if (isAuthenticated) navigate('/') }, [isAuthenticated, navigate])
RedirectEffect ==
  /\ location = "/login"
  /\ IsAuthenticated(user)
  /\ Navigate("/", timers)
  /\ ev' = Event("task", NoOut)
  /\ UNCHANGED <<pc, user, storage, calls>>

\* the user moves to another route of the application (history, links)
Visit(path) ==
  /\ pc = "running"
  /\ path # location
  /\ Navigate(path, timers)
  /\ ev' = Event("task", NoOut)
  /\ UNCHANGED <<pc, user, storage, calls>>

\* the Dashboard component renders
Render ==
  /\ location = "/"
  /\ ev' = Event("render", Dashboard(user))
  /\ UNCHANGED <<pc, user, storage, calls, timers, email, password, role, isLoading, location>>

Next ==
  \/ Restore
  \/ \E e \in Emails, p \in Passwords, r \in Roles : Login(e, p, r)
  \/ TimerFire
  \/ Logout
  \/ Reload
  \/ \E e \in Emails : SetEmail(e)
  \/ \E p \in Passwords : SetPassword(p)
  \/ \E r \in Roles : SetRole(r)
  \/ HandleSubmit
  \/ RedirectEffect
  \/ \E path \in {"/login", "/"} : Visit(path)
  \/ Render

Spec == Init /\ [][Next]_vars

\* The Session Store during one page lifetime, its consumers calling login and
\* logout at will: the page stays open, and the event loop runs every timer that
\* is due.
LiveNext ==
  \/ Restore
  \/ \E e \in Emails, p \in Passwords, r \in Roles : Login(e, p, r)
  \/ TimerFire
  \/ Logout

LiveSpec == Init /\ [][LiveNext]_vars /\ WF_vars(TimerFire)

\* the same with the Login view and the Dashboard
LiveViewNext ==
  \/ LiveNext
  \/ \E e \in Emails : SetEmail(e)
  \/ \E p \in Passwords : SetPassword(p)
  \/ \E r \in Roles : SetRole(r)
  \/ HandleSubmit
  \/ RedirectEffect
  \/ \E path \in {"/login", "/"} : Visit(path)
  \/ Render

LiveViewSpec == Init /\ [][LiveViewNext]_vars /\ WF_vars(TimerFire)

(***************************************************************************)
(* Properties                                                              *)
(***************************************************************************)
\* this step is the timer callback of the closure Fired
Fired == Head(timers)
Firing ==
  /\ timers # <<>>
  /\ ev'.op = "resolve"
  /\ ev'.call = Fired.call

\* n is the part of e before its first '@' (all of e when it has none)
IsPartBeforeFirstAt(n, e) ==
  /\ Len(n) <= Len(e)
  /\ \A i \in 1..Len(n) : n[i] = e[i] /\ n[i] # "@"
  /\ Len(n) < Len(e) => e[Len(n) + 1] = "@"

\* C1: a login whose password has at least 4 characters resolves true, and at that
\* moment the current Identity has the supplied email, the requested role and, as
\* name, the part of the email before the first '@'.
C1_LoginSucceeds ==
  [][(Firing /\ Len(Fired.password) >= 4) =>
       /\ ev'.result = "true"
       /\ user'.t = "obj"
       /\ DOMAIN user'.f = {"id", "email", "name", "role"}
       /\ user'.f.email = Fired.email
       /\ user'.f.role = Fired.role
       /\ IsPartBeforeFirstAt(user'.f.name, Fired.email)]_vars

\* a login of "a@b@c" as admin has just resolved true: the Identity is named "a"
C1_Witness ==
  /\ ev.op = "resolve"
  /\ ev.result = "true"
  /\ user.t = "obj"
  /\ user.f.email = <<"a", "@", "b", "@", "c">>
  /\ user.f.name = <<"a">>
  /\ user.f.role = "admin"

\* C2: a login whose password has fewer than 4 characters resolves false and leaves
\* the in-memory Identity and the persisted entry exactly as they were.
C2_LoginRejects ==
  [][(Firing /\ Len(Fired.password) < 4) =>
       /\ ev'.result = "false"
       /\ user' = user
       /\ storage' = storage]_vars

\* a login has just resolved false in an Authenticated session with its entry kept
C2_Witness ==
  /\ ev.op = "resolve"
  /\ ev.result = "false"
  /\ IsAuthenticated(user)
  /\ storage.present

\* C3: after logout the current Identity is absent, isAuthenticated is false and
\* the persisted entry is absent, whatever the state before the call.
C3_LogoutClears ==
  ev.op = "logout" => user = Null /\ ~IsAuthenticated(user) /\ ~storage.present

\* logout has just run in a session that had a persisted entry and no Identity
C3_Witness ==
  /\ ev.op = "logout"
  /\ ~ev.wasAuthenticated
  /\ ev.wasStored
  /\ user = Null
  /\ ~storage.present

\* logout has just run in an Authenticated session
C3_WitnessAuthenticated ==
  /\ ev.op = "logout"
  /\ ev.wasAuthenticated
  /\ user = Null
  /\ ~storage.present
\* st is an entry a successful login writes
ValidEntry(st) ==
  /\ st.present
  /\ \E id \in Ids, e \in Emails, r \in Roles : st.text = JSONstringify(NewUser(id, e, r))

\* this step is the startup restore
Starting == pc = "start" /\ pc' = "running"

\* C4: startup with the entry a successful login wrote yields the Authenticated
\* state with the identical Identity; startup with any other stored value yields
\* the Unauthenticated state, the entry being removed or left as it was.
C4_StartupRestore ==
  [][Starting =>
       IF ValidEntry(storage)
         THEN /\ IsAuthenticated(user')
              /\ \E id \in Ids, e \in Emails, r \in Roles :
                    /\ storage.text = JSONstringify(NewUser(id, e, r))
                    /\ user' = NewUser(id, e, r)
         ELSE storage.present =>
                /\ ~IsAuthenticated(user')
                /\ storage' \in {NoEntry, storage}]_vars

\* C5: the session is Unauthenticated before the startup restore and Authenticated
\* after it exactly when a valid persisted Identity was found; afterwards it becomes
\* Authenticated only when a login resolves true and Unauthenticated only by logout.
C5_Lifecycle ==
  [][/\ pc = "start" => ~IsAuthenticated(user)
     /\ Starting => (IsAuthenticated(user') <=> ValidEntry(storage))
     /\ (pc = "running" /\ pc' = "running") =>
          /\ (~IsAuthenticated(user) /\ IsAuthenticated(user')) =>
               (ev'.op = "resolve" /\ ev'.result = "true")
          /\ (IsAuthenticated(user) /\ ~IsAuthenticated(user')) => ev'.op = "logout"]_vars

\* C6: the current Identity, if present, has a non-empty email and a role that is
\* investor or admin.
C6_IdentityWellFormed ==
  IsAuthenticated(user) =>
    /\ Field(user, "email") # <<>>
    /\ Field(user, "email") # << <<>> >>
    /\ Field(user, "role") \in {<<r>> : r \in Roles}

\* the persisted entry mirrors the in-memory session
Mirror ==
  /\ storage.present <=> IsAuthenticated(user)
  /\ storage.present => storage.text = JSONstringify(user)

\* C7 as stated: in every state after a login (resolved true or false) or a logout
\* has completed, the persisted entry mirrors the in-memory session.
C7_MirrorAfterAnyCompletion ==
  (pc = "running" /\ (ev.op \in {"resolve", "logout"} \/ calls > Len(timers))) => Mirror

\* C7 amended: a login that resolves true and a logout each leave the persisted
\* entry mirroring the in-memory session, and no later task of the page lifetime
\* breaks the mirror (a task that touches neither the session nor the entry
\* keeps it as it is).
C7_MirrorOnceWritten ==
  [][(/\ pc' = "running"
      /\ \/ ev'.op = "logout"
         \/ ev'.op = "resolve" /\ ev'.result = "true"
         \/ pc = "running" /\ <<user, storage>>' # <<user, storage>> /\ Mirror)
     => Mirror']_vars

\* a login has just resolved true while another is pending: entry and Identity agree
C7_Witness ==
  /\ ev.op = "resolve"
  /\ ev.result = "true"
  /\ timers # <<>>
  /\ storage.present
  /\ IsAuthenticated(user)
  /\ Mirror

\* C9: the Dashboard renders the four-KPI investor layout when the role is
\* investor, the extended administrative layout when it is admin, and one of these
\* two layouts in every session state.
C9_LayoutByRole ==
  ev.op = "render" =>
    /\ Field(user, "role") = <<"investor">> =>
         (ev.out.title = "Dashboard de Inversionista" /\ Len(ev.out.kpis) = 4)
    /\ Field(user, "role") = <<"admin">> =>
         (ev.out.title = "Dashboard Administrativo" /\ Len(ev.out.kpis) > 4)
    /\ ev.out \in {InvestorLayout, AdminLayout}
    /\ InvestorLayout # AdminLayout

\* the Dashboard has just rendered for an admin Identity
C9_Witness ==
  /\ ev.op = "render"
  /\ IsAuthenticated(user)
  /\ Field(user, "role") = <<"admin">>
  /\ ev.out.title = "Dashboard Administrativo"

\* the Dashboard has just rendered for an investor Identity
C9_WitnessInvestor ==
  /\ ev.op = "render"
  /\ Field(user, "role") = <<"investor">>
  /\ Len(ev.out.kpis) = 4

\* this step is a submit of the Login form
Submitting == location = "/login" /\ ev'.op = "submit"

\* C10: a submit with an empty email, an empty password or a password shorter than
\* 4 characters shows an error, invokes no login, navigates nowhere and leaves the
\* session, the persisted entry and the loading flag unchanged.
C10_ValidationFailure ==
  [][(Submitting /\ (email = <<>> \/ password = <<>> \/ Len(password) < 4)) =>
       /\ ev'.out.kind = "toast"
       /\ ev'.out.level = "error"
       /\ calls' = calls
       /\ timers' = timers
       /\ location' = location
       /\ user' = user
       /\ storage' = storage
       /\ isLoading' = isLoading]_vars

\* a form with an email and a 3-character password has just been submitted
C10_Witness ==
  /\ ev.op = "submit"
  /\ ev.out.kind = "toast"
  /\ email # <<>>
  /\ Len(password) = 3
  /\ ~isLoading
  /\ location = "/login"
\* the promise of login invocation c is pending
Pending(c) == \E i \in 1..Len(timers) : timers[i].call = c

\* C8: every login invocation eventually resolves, to true or to false, whatever
\* other login and logout calls happen meanwhile.
C8_LoginCompletes ==
  \A c \in 1..MaxCalls :
    Pending(c) ~> (ev.op = "resolve" /\ ev.call = c /\ ev.result \in {"true", "false"})

\* the second login has just resolved false after a logout, the session Unauthenticated
C8_Witness ==
  /\ ev.op = "resolve"
  /\ ev.call = 2
  /\ ev.result = "false"
  /\ timers = <<>>
  /\ ~IsAuthenticated(user)

\* a login whose password the store accepts is pending
AcceptedPending == \E i \in 1..Len(timers) : Len(timers[i].password) >= 4

\* C11: a logout cancels no pending login and leaves the session Unauthenticated
\* with no entry; a pending login with a password of 4 or more characters, when
\* its delay elapses, makes the session Authenticated with its own Identity and
\* writes the entry, a logout called meanwhile notwithstanding; every other task
\* leaves session and entry alone, so the state is that of the last write to
\* complete.
C11_LastWriteWins ==
  [][/\ ev'.op = "logout" =>
          /\ ~IsAuthenticated(user')
          /\ storage' = NoEntry
          /\ timers' = timers
     /\ (Firing /\ Len(Fired.password) >= 4) =>
          /\ IsAuthenticated(user')
          /\ Field(user', "email") = <<Fired.email>>
          /\ Field(user', "role") = <<Fired.role>>
          /\ storage' = Entry(JSONstringify(user'))
     /\ (pc = "running" /\ pc' = "running" /\ ev'.op # "logout"
          /\ ~(ev'.op = "resolve" /\ ev'.result = "true")) =>
          /\ user' = user
          /\ storage' = storage]_vars

\* a logout has just cleared an Authenticated session and its entry while a login
\* that the store will accept is still pending
C11_Witness ==
  /\ ev.op = "logout"
  /\ ev.wasAuthenticated
  /\ ev.wasStored
  /\ AcceptedPending
  /\ ~IsAuthenticated(user)
  /\ ~storage.present

\* the pending logins that a handleSubmit of the mounted Login view awaits
OfMountedView(ts) == {i \in 1..Len(ts) : ts[i].awaiter = "view"}

\* the pending logins that a handleSubmit of any Login view, mounted or since
\* unmounted, awaits
OfLoginView(ts) == {i \in 1..Len(ts) : ts[i].awaiter # "none"}

\* what C12 says of the submit handler itself: once the login it awaited has
\* resolved the flag of its view is false, and it navigates, to '/', only when
\* that login resolved true
AfterAwait ==
  /\ (Firing /\ Fired.awaiter = "view") => ~isLoading'
  /\ (Firing /\ location' # location) =>
       /\ Fired.awaiter # "none"
       /\ ev'.result = "true"
       /\ location' = "/"

\* C12 as stated: while the Login view is shown its loading flag is true exactly
\* while a login invoked from the Login view is pending, at most one such login is
\* pending at any time, the flag is false once the login has resolved, and the
\* submit handler navigates to '/' only after a login resolved true.
C12_OneViewLoginPending ==
  [][/\ location' = "/login" => (isLoading' <=> OfLoginView(timers') # {})
     /\ Cardinality(OfLoginView(timers')) <= 1
     /\ AfterAwait]_vars

\* C12 amended: the loading flag of the mounted Login view is true exactly while
\* a login invoked by a submit of that mounted view is pending, at most one such
\* login is pending at any time, the flag is false once it has resolved, and a
\* submit handler navigates to '/' only after the login it awaited resolved true.
C12_OneLoginPerMountedView ==
  [][/\ isLoading' <=> OfMountedView(timers') # {}
     /\ Cardinality(OfMountedView(timers')) <= 1
     /\ AfterAwait]_vars

\* the mounted Login view is loading, its login pending beside the login of an
\* earlier Login view that was unmounted meanwhile
C12_Witness ==
  /\ location = "/login"
  /\ isLoading
  /\ \E i, j \in 1..Len(timers) : timers[i].awaiter = "stale" /\ timers[j].awaiter = "view"
====
